---- MODULE Spec2Model ----
(***************************************************************************)
(* Conway's Game of Life (kokkonisd/game-of-life), src/main.js.            *)
(*                                                                         *)
(* main.js holds two variants of the sketch:                               *)
(*   "change"     (lines 1-267):  double-buffered updateAndDrawCells,      *)
(*                                 stall flag animationStalled;            *)
(*   "extinction" (lines 269-486): in-place updateAndDrawCells,            *)
(*                                 flag cellsAreAllDead, loop()/noLoop().  *)
(*                                                                         *)
(* A grid is cells[i][j] for i < floor(CANVAS_WIDTH / CELL_SIZE) and       *)
(* j < floor(CANVAS_HEIGHT / CELL_SIZE); a cell is modelled by its alive   *)
(* field (x, y, size and outline are set once by the constructor and only  *)
(* read by display()).  The program's canvas is 500 x 500; the model       *)
(* ranges over smaller canvases.                                           *)
(***************************************************************************)
EXTENDS Integers, FiniteSets, Sequences, TLC

\* ------------------------------------------------------------- constants
CELL_SIZE == 10
STARTING_FRAMERATE == 2
STARTING_PERCENTAGE == 15
\* the extinction variant's createSlider(0, 100, 5, 1)
STARTING_PERCENTAGE_EXT == 5
SLIDER_MAX_FRAMERATE == 100
SLIDER_MIN_PERCENTAGE == 0
SLIDER_MAX_PERCENTAGE == 100

\* ---------------------------------------------------------------- bounds
\* cells per side, and cells per grid, of the canvases the model ranges over
MaxDim == 3
MaxCells == 9
\* cells per side of the degenerate canvases (SpecTiny)
MaxTinyDim == 2
\* cells per side of the larger canvas, and cells seeded alive on it (SpecBlock)
BlockDim == 4
MaxLive == 4

VARIABLES
    CANVAS_WIDTH,       \* canvas width in pixels (canvasX in the extinction variant)
    CANVAS_HEIGHT,      \* canvas height in pixels (canvasY)
    variant,            \* which of the two sketches of main.js runs
    cells,              \* cells[i][j] = the alive field of the cell in column i, row j
    animationStalled,   \* change variant's stall flag
    cellsAreAllDead,    \* extinction variant's flag
    looping,            \* p5's draw loop is running (loop() / noLoop())
    frameRateSlider,    \* frameRateSlider.value()
    probabilitySlider,  \* probabilitySlider.value()
    lastOp,             \* the handler that ran last: reset, step, render, throw, slider, draw
    prevCells,          \* cells as they were when the last step began
    randomNum,          \* the per-cell draws of the last reset (NoDraws otherwise)
    pc,                 \* position inside updateAndDrawCells (SpecScan): idle, scan, commit, return
    loopI,              \* the loops' i
    loopJ,              \* the loops' j
    newStates,          \* updateAndDrawCells' newStates, a map from <<i, j>> to a boolean
    stalled,            \* updateAndDrawCells' local stalled
    scanned,            \* the cell whose new state was computed last (<<>> if none)
    reads,              \* the indices <<k, l>> of cells read while counting its neighbors
    aliveNeighbors      \* its aliveNeighbors when the count ended

vars == <<CANVAS_WIDTH, CANVAS_HEIGHT, variant, cells, animationStalled,
          cellsAreAllDead, looping, frameRateSlider, probabilitySlider,
          lastOp, prevCells, randomNum, pc, loopI, loopJ, newStates, stalled,
          scanned, reads, aliveNeighbors>>

sizeVars == <<CANVAS_WIDTH, CANVAS_HEIGHT, variant>>
scanVars == <<pc, loopI, loopJ, newStates, stalled, scanned, reads, aliveNeighbors>>

\* ------------------------------------------------------------ dimensions
\* floor(CANVAS_WIDTH / CELL_SIZE), floor(CANVAS_HEIGHT / CELL_SIZE)
width_cells == CANVAS_WIDTH \div CELL_SIZE
height_cells == CANVAS_HEIGHT \div CELL_SIZE

Cols == 0 .. (width_cells - 1)
Rows == 0 .. (height_cells - 1)
AllCells == Cols \X Rows

\* floor(random(1, 101)) is an integer of 1..100; the model draws its extremes
RandomNums == {1, 100}
NoDraws == <<>>
NoCell == <<>>

FrameRateStops == {STARTING_FRAMERATE, SLIDER_MAX_FRAMERATE}
StartingPercentage(v) ==
    IF v = "change" THEN STARTING_PERCENTAGE ELSE STARTING_PERCENTAGE_EXT
ProbabilityStops(v) ==
    {SLIDER_MIN_PERCENTAGE, StartingPercentage(v), SLIDER_MAX_PERCENTAGE}

\* --------------------------------------------------------------- seeding
\* reset's loops: alive = (randomNum <= probabilitySlider.value())
MutSeedCellsStrict(draws, p) ==
    [i \in Cols |-> [j \in Rows |-> draws[i][j] < p]]

MutSeedCellsShortRows(draws, p) ==
    [i \in Cols |-> [j \in 0 .. (height_cells - 2) |-> draws[i][j] <= p]]

SeedCells(draws, p) ==
    [i \in Cols |-> [j \in Rows |-> draws[i][j] <= p]]

\* ------------------------------------------------------- neighbor window
\* the limiters, set by "if (i == 0) ... else if (i == floor(..) - 1) ..."
StartNeighborsX(i) == IF i = 0 THEN 0 ELSE i - 1

MutEndNeighborsXUnclamped(i) == i + 1

EndNeighborsX(i) ==
    IF i = 0 THEN i + 1
    ELSE IF i = width_cells - 1 THEN i
    ELSE i + 1

StartNeighborsY(j) == IF j = 0 THEN 0 ELSE j - 1

EndNeighborsY(j) ==
    IF j = 0 THEN j + 1
    ELSE IF j = height_cells - 1 THEN j
    ELSE j + 1

\* the (k, l) the two counting loops visit
Window(i, j) ==
    (StartNeighborsX(i) .. EndNeighborsX(i)) \X (StartNeighborsY(j) .. EndNeighborsY(j))

\* cells[k][l] is a Cell: k indexes a column of g and l a cell of it.  Otherwise
\* cells[k] or cells[k][l] is undefined and reading .alive of it throws a TypeError.
InGrid(g, k, l) == k \in DOMAIN g /\ l \in DOMAIN g[k]

\* ------------------------------------------ double-buffered step (180-254)
\* the cells whose alive field the counting loop reads: "!(k == i && l == j) &&"
\* short-circuits the read of the cell itself
NeighborReads(i, j) == Window(i, j) \ {<<i, j>>}

ReadThrows(g, i, j) == \E kl \in NeighborReads(i, j) : ~InGrid(g, kl[1], kl[2])

\* the count without its "!(k == i && l == j)" guard
\* the count read from the grid of the step before (a stale buffer)
MutAliveNeighborsStale(g, i, j) ==
    Cardinality({kl \in NeighborReads(i, j) :
                    InGrid(prevCells, kl[1], kl[2]) /\ prevCells[kl[1]][kl[2]] = TRUE})

MutAliveNeighborsCountsSelf(g, i, j) ==
    Cardinality({kl \in Window(i, j) :
                    InGrid(g, kl[1], kl[2]) /\ g[kl[1]][kl[2]] = TRUE})

AliveNeighbors(g, i, j) ==
    Cardinality({kl \in NeighborReads(i, j) :
                    InGrid(g, kl[1], kl[2]) /\ g[kl[1]][kl[2]] = TRUE})

\* lines 227-235
MutRuleSurvivesOnTwoOnly(alive, n) ==
    IF alive THEN (IF ~(n = 2) THEN FALSE ELSE alive)
    ELSE (IF n = 3 THEN TRUE ELSE alive)

Rule(alive, n) ==
    IF alive THEN (IF ~(n = 2 \/ n = 3) THEN FALSE ELSE alive)
    ELSE (IF n = 3 THEN TRUE ELSE alive)

NewState(g, i, j) == Rule(g[i][j], AliveNeighbors(g, i, j))

\* the scan loops' result: newStates, as a map from <<i, j>>
ScanStates(g) == [c \in AllCells |-> NewState(g, c[1], c[2])]

\* stalled: true unless some newStates[i][j] != cells[i][j].alive
\* stalled starting out false
MutScanStalledNever(g, ns) == FALSE

MutScanStalledLastCellOnly(g, ns) ==
    ns[<<width_cells - 1, height_cells - 1>>] = g[width_cells - 1][height_cells - 1]

ScanStalled(g, ns) == \A c \in AllCells : ns[c] = g[c[1]][c[2]]

\* the commit loops, lines 245-251
CommitStates(g, ns) == [i \in Cols |-> [j \in Rows |-> ns[<<i, j>>]]]

\* the whole call: thrown (a TypeError left the function), the cells it leaves,
\* and its return value
UpdateAndDrawCells(g) ==
    IF \E c \in AllCells : ReadThrows(g, c[1], c[2])
    THEN [thrown |-> TRUE, cells |-> g, stalled |-> TRUE]
    ELSE LET ns == ScanStates(g)
         IN  [thrown |-> FALSE, cells |-> CommitStates(g, ns),
              stalled |-> ScanStalled(g, ns)]

\* ------------------------------------------------ in-place step (434-486)
\* the counting loop reads cells[k][l].alive for every (k, l) of the window,
\* the cell itself included (line 461)
InPlaceThrows(g, i, j) == \E kl \in Window(i, j) : ~InGrid(g, kl[1], kl[2])

InPlaceAliveNeighbors(g, i, j) ==
    Cardinality({kl \in Window(i, j) :
                    InGrid(g, kl[1], kl[2]) /\ g[kl[1]][kl[2]] = TRUE})

InPlaceNewState(g, i, j) == Rule(g[i][j], InPlaceAliveNeighbors(g, i, j))

\* the n-th cell the loops visit: i outer, j inner
RasterCol(n) == n \div height_cells
RasterRow(n) == n % height_cells

\* the loops from their n-th iteration on, cells being written as they go;
\* allDead is only ever assigned false (lines 436, 477-479)
RECURSIVE InPlaceFrom(_, _, _)
InPlaceFrom(g, allDead, n) ==
    IF n >= width_cells * height_cells
    THEN [thrown |-> FALSE, cells |-> g, allDead |-> allDead]
    ELSE LET i == RasterCol(n)
             j == RasterRow(n)
         IN  IF InPlaceThrows(g, i, j)
             THEN [thrown |-> TRUE, cells |-> g, allDead |-> allDead]
             ELSE LET g2 == [g EXCEPT ![i][j] = InPlaceNewState(g, i, j)]
                  IN  InPlaceFrom(g2, IF g2[i][j] THEN FALSE ELSE allDead, n + 1)

\* every cell's new state from the grid as it was when the call began
MutInPlaceSimultaneous(g) ==
    IF \E c \in AllCells : InPlaceThrows(g, c[1], c[2])
    THEN [thrown |-> TRUE, cells |-> g, allDead |-> FALSE]
    ELSE [thrown |-> FALSE,
          cells |-> [i \in Cols |-> [j \in Rows |-> InPlaceNewState(g, i, j)]],
          allDead |-> FALSE]

\* allDead starting true, so that it is true when no cell is left alive
MutInPlaceAllDeadInitTrue(g) == InPlaceFrom(g, TRUE, 0)

UpdateAndDrawCellsInPlace(g) == InPlaceFrom(g, FALSE, 0)

\* ------------------------------------------------------------- handlers
\* what every handler of the atomic specifications leaves of the scan's state
ScanIdle ==
    /\ pc = "idle"
    /\ UNCHANGED scanVars

\* reset, lines 82-106
MutResetKeepsStall == animationStalled

ResetStallFlag == FALSE

Reset ==
    /\ variant = "change"
    /\ pc = "idle"
    /\ \E draws \in [Cols -> [Rows -> RandomNums]] :
          /\ randomNum' = draws
          /\ cells' = SeedCells(draws, probabilitySlider)
    /\ animationStalled' = ResetStallFlag
    /\ prevCells' = cells'
    /\ lastOp' = "reset"
    /\ UNCHANGED <<sizeVars, cellsAreAllDead, looping, frameRateSlider,
                   probabilitySlider, scanVars>>

\* draw, lines 112-136
MutDrawIgnoresStall == TRUE

DrawSteps == ~animationStalled

Draw ==
    /\ variant = "change"
    /\ ScanIdle
    /\ randomNum' = NoDraws
    /\ IF DrawSteps
       THEN \E r \in {UpdateAndDrawCells(cells)} :
                IF r.thrown
                THEN /\ lastOp' = "throw"
                     /\ cells' = r.cells
                     /\ prevCells' = cells
                     /\ UNCHANGED animationStalled
                ELSE /\ lastOp' = "step"
                     /\ cells' = r.cells
                     /\ prevCells' = cells
                     /\ animationStalled' = r.stalled
       ELSE /\ lastOp' = "render"
            /\ prevCells' = cells
            /\ UNCHANGED <<cells, animationStalled>>
    /\ UNCHANGED <<sizeVars, cellsAreAllDead, looping, frameRateSlider,
                   probabilitySlider>>

\* the user moves a slider (createSlider, lines 42 and 47)
MoveFrameRateSlider ==
    /\ pc = "idle"
    /\ \E v \in FrameRateStops \ {frameRateSlider} : frameRateSlider' = v
    /\ lastOp' = "slider"
    /\ prevCells' = cells
    /\ randomNum' = NoDraws
    /\ UNCHANGED <<sizeVars, cells, animationStalled, cellsAreAllDead, looping,
                   probabilitySlider, scanVars>>

MoveProbabilitySlider ==
    /\ pc = "idle"
    /\ \E v \in ProbabilityStops(variant) \ {probabilitySlider} : probabilitySlider' = v
    /\ lastOp' = "slider"
    /\ prevCells' = cells
    /\ randomNum' = NoDraws
    /\ UNCHANGED <<sizeVars, cells, animationStalled, cellsAreAllDead, looping,
                   frameRateSlider, scanVars>>

\* ------------------------------ updateAndDrawCells, one iteration at a time
\* A frame of the change variant at the grain of its loops' iterations.  Handlers
\* run to completion: no other handler runs between DrawBegin and DrawEnd.

\* the counting loop's reads for cell (i, j), in the loops' order, up to and
\* including the first one that throws: <<k, l, defined, alive>>
ReadRecord(g, k, l) ==
    <<k, l, InGrid(g, k, l), InGrid(g, k, l) /\ g[k][l] = TRUE>>

ScanReads(g, i, j) ==
    LET bad == {kl \in NeighborReads(i, j) : ~InGrid(g, kl[1], kl[2])}
        Before(a, b) == a[1] < b[1] \/ (a[1] = b[1] /\ a[2] <= b[2])
    IN  {ReadRecord(g, kl[1], kl[2]) :
            kl \in {x \in NeighborReads(i, j) : \A b \in bad : Before(x, b)}}

\* scanning cell (i, j) leaves cells as it is: lines 229 and 233 assign
\* newStates[i][j], not cells[i][j].alive
MutCellsAfterScanInPlace(g, i, j, v) == [g EXCEPT ![i][j] = v]

CellsAfterScan(g, i, j, v) == g

\* draw's entry, lines 114-125, and updateAndDrawCells' lines 182-183
DrawBegin ==
    /\ variant = "change"
    /\ pc = "idle"
    /\ DrawSteps
    /\ pc' = IF width_cells * height_cells = 0 THEN "return" ELSE "scan"
    /\ loopI' = 0
    /\ loopJ' = 0
    /\ newStates' = <<>>
    /\ stalled' = TRUE
    /\ scanned' = NoCell
    /\ reads' = {}
    /\ aliveNeighbors' = 0
    /\ prevCells' = cells
    /\ lastOp' = "draw"
    /\ randomNum' = NoDraws
    /\ UNCHANGED <<sizeVars, cells, animationStalled, cellsAreAllDead, looping,
                   frameRateSlider, probabilitySlider>>

\* one iteration of the inner scan loop, lines 188-241
ScanCell ==
    /\ pc = "scan"
    /\ scanned' = <<loopI, loopJ>>
    /\ reads' = ScanReads(cells, loopI, loopJ)
    /\ IF ReadThrows(cells, loopI, loopJ)
       THEN /\ pc' = "idle"
            /\ lastOp' = "throw"
            /\ loopI' = 0
            /\ loopJ' = 0
            /\ newStates' = <<>>
            /\ stalled' = TRUE
            /\ aliveNeighbors' = 0
            /\ UNCHANGED cells
       ELSE LET v == NewState(cells, loopI, loopJ)
            IN  /\ aliveNeighbors' = AliveNeighbors(cells, loopI, loopJ)
                /\ newStates' = (<<loopI, loopJ>> :> v) @@ newStates
                /\ stalled' = IF v # cells[loopI][loopJ] THEN FALSE ELSE stalled
                /\ cells' = CellsAfterScan(cells, loopI, loopJ, v)
                /\ IF loopJ + 1 < height_cells
                   THEN /\ loopJ' = loopJ + 1
                        /\ UNCHANGED <<loopI, pc>>
                   ELSE IF loopI + 1 < width_cells
                   THEN /\ loopI' = loopI + 1
                        /\ loopJ' = 0
                        /\ UNCHANGED pc
                   ELSE /\ loopI' = 0
                        /\ loopJ' = 0
                        /\ pc' = "commit"
                /\ UNCHANGED lastOp
    /\ UNCHANGED <<sizeVars, animationStalled, cellsAreAllDead, looping,
                   frameRateSlider, probabilitySlider, prevCells, randomNum>>

\* one iteration of the inner commit loop, lines 246-250
CommitCell ==
    /\ pc = "commit"
    /\ cells' = [cells EXCEPT ![loopI][loopJ] = newStates[<<loopI, loopJ>>]]
    /\ IF loopJ + 1 < height_cells
       THEN /\ loopJ' = loopJ + 1
            /\ UNCHANGED <<loopI, pc>>
       ELSE IF loopI + 1 < width_cells
       THEN /\ loopI' = loopI + 1
            /\ loopJ' = 0
            /\ UNCHANGED pc
       ELSE /\ loopI' = 0
            /\ loopJ' = 0
            /\ pc' = "return"
    /\ UNCHANGED <<sizeVars, animationStalled, cellsAreAllDead, looping,
                   frameRateSlider, probabilitySlider, lastOp, prevCells,
                   randomNum, newStates, stalled, scanned, reads, aliveNeighbors>>

\* return stalled (line 253) and draw's assignment of it (line 125)
DrawEnd ==
    /\ pc = "return"
    /\ animationStalled' = stalled
    /\ lastOp' = "step"
    /\ pc' = "idle"
    /\ newStates' = <<>>
    /\ stalled' = TRUE
    /\ scanned' = NoCell
    /\ reads' = {}
    /\ aliveNeighbors' = 0
    /\ UNCHANGED <<sizeVars, cells, cellsAreAllDead, looping, frameRateSlider,
                   probabilitySlider, prevCells, randomNum, loopI, loopJ>>

\* draw's else branch, lines 126-135
DrawRender ==
    /\ variant = "change"
    /\ ScanIdle
    /\ ~DrawSteps
    /\ lastOp' = "render"
    /\ prevCells' = cells
    /\ randomNum' = NoDraws
    /\ UNCHANGED <<sizeVars, cells, animationStalled, cellsAreAllDead, looping,
                   frameRateSlider, probabilitySlider>>

\* ----------------------------------------- extinction variant's handlers
\* reset, lines 348-372
ResetExt ==
    /\ variant = "extinction"
    /\ pc = "idle"
    /\ \E draws \in [Cols -> [Rows -> RandomNums]] :
          /\ randomNum' = draws
          /\ cells' = SeedCells(draws, probabilitySlider)
    /\ looping' = TRUE
    /\ prevCells' = cells'
    /\ lastOp' = "reset"
    /\ UNCHANGED <<sizeVars, animationStalled, cellsAreAllDead, frameRateSlider,
                   probabilitySlider, scanVars>>

\* draw, lines 378-397; p5 calls it while the loop runs
DrawExt ==
    /\ variant = "extinction"
    /\ ScanIdle
    /\ looping
    /\ randomNum' = NoDraws
    /\ LET r == UpdateAndDrawCellsInPlace(cells)
       IN  IF r.thrown
           THEN /\ lastOp' = "throw"
                /\ cells' = r.cells
                /\ prevCells' = cells
                /\ UNCHANGED <<cellsAreAllDead, looping>>
           ELSE /\ lastOp' = "step"
                /\ cells' = r.cells
                /\ prevCells' = cells
                /\ cellsAreAllDead' = r.allDead
                /\ looping' = IF r.allDead THEN FALSE ELSE looping
    /\ UNCHANGED <<sizeVars, animationStalled, frameRateSlider, probabilitySlider>>

\* ------------------------------------------------------- specifications
DimPairs(dims) == {wh \in dims \X dims : wh[1] * wh[2] <= MaxCells}

\* the state setup() leaves: the sliders at their starting values, and reset() run
InitWith(v, dims) ==
    /\ variant = v
    /\ \E wh \in DimPairs(dims) :
          /\ CANVAS_WIDTH = wh[1] * CELL_SIZE
          /\ CANVAS_HEIGHT = wh[2] * CELL_SIZE
    /\ frameRateSlider = STARTING_FRAMERATE
    /\ probabilitySlider = StartingPercentage(v)
    /\ \E draws \in [Cols -> [Rows -> RandomNums]] :
          /\ randomNum = draws
          /\ cells = SeedCells(draws, probabilitySlider)
    /\ prevCells = cells
    /\ animationStalled = FALSE
    /\ cellsAreAllDead = FALSE
    /\ looping = TRUE
    /\ lastOp = "reset"
    /\ pc = "idle"
    /\ loopI = 0
    /\ loopJ = 0
    /\ newStates = <<>>
    /\ stalled = TRUE
    /\ scanned = NoCell
    /\ reads = {}
    /\ aliveNeighbors = 0

Init == InitWith("change", 2 .. MaxDim)

Next ==
    \/ Reset
    \/ Draw
    \/ MoveFrameRateSlider
    \/ MoveProbabilitySlider

Spec == Init /\ [][Next]_vars

\* the extinction variant
InitExt == InitWith("extinction", 2 .. MaxDim)

NextExt ==
    \/ ResetExt
    \/ DrawExt
    \/ MoveFrameRateSlider
    \/ MoveProbabilitySlider

SpecExt == InitExt /\ [][NextExt]_vars

\* both variants on canvases of one to MaxTinyDim cells a side
InitTiny == \E v \in {"change", "extinction"} : InitWith(v, 1 .. MaxTinyDim)

NextTiny ==
    \/ Reset
    \/ Draw
    \/ ResetExt
    \/ DrawExt
    \/ MoveFrameRateSlider
    \/ MoveProbabilitySlider

SpecTiny == InitTiny /\ [][NextTiny]_vars

\* the change variant with updateAndDrawCells run one iteration at a time
NextScan ==
    \/ Reset
    \/ DrawBegin
    \/ ScanCell
    \/ CommitCell
    \/ DrawEnd
    \/ DrawRender

SpecScan == Init /\ [][NextScan]_vars

\* ================================================================ claims
\* the change variant on a canvas of BlockDim x BlockDim cells, seeded with at
\* most MaxLive cells alive, and drawn frame after frame
RECURSIVE SubsetsUpTo(_, _)
SubsetsUpTo(S, k) ==
    IF k = 0 THEN {{}}
    ELSE LET smaller == SubsetsUpTo(S, k - 1)
         IN  smaller \cup {s \cup {x} : s \in smaller, x \in S}

InitBlock ==
    /\ variant = "change"
    /\ CANVAS_WIDTH = BlockDim * CELL_SIZE
    /\ CANVAS_HEIGHT = BlockDim * CELL_SIZE
    /\ frameRateSlider = STARTING_FRAMERATE
    /\ probabilitySlider = StartingPercentage(variant)
    /\ \E live \in SubsetsUpTo(AllCells, MaxLive) :
          /\ randomNum = [i \in Cols |-> [j \in Rows |->
                            IF <<i, j>> \in live THEN 1 ELSE 100]]
          /\ cells = SeedCells(randomNum, probabilitySlider)
    /\ prevCells = cells
    /\ animationStalled = FALSE
    /\ cellsAreAllDead = FALSE
    /\ looping = TRUE
    /\ lastOp = "reset"
    /\ pc = "idle"
    /\ loopI = 0
    /\ loopJ = 0
    /\ newStates = <<>>
    /\ stalled = TRUE
    /\ scanned = NoCell
    /\ reads = {}
    /\ aliveNeighbors = 0

NextBlock == Draw

SpecBlock == InitBlock /\ [][NextBlock]_vars


Max(a, b) == IF a >= b THEN a ELSE b
Min(a, b) == IF a <= b THEN a ELSE b

\* the clamped 3x3 window around (i, j), (i, j) excluded
ClampedWindow(i, j) ==
    ((Max(i - 1, 0) .. Min(i + 1, width_cells - 1))
        \X (Max(j - 1, 0) .. Min(j + 1, height_cells - 1))) \ {<<i, j>>}

\* the number of alive cells of g in it
LiveNeighborCount(g, i, j) ==
    Cardinality({kl \in ClampedWindow(i, j) : g[kl[1]][kl[2]]})

\* Conway's rule: the next state of a cell that was `was` with n live neighbors
CanonicalNext(was, n) ==
    IF was /\ n # 2 /\ n # 3 THEN FALSE
    ELSE IF ~was /\ n = 3 THEN TRUE
    ELSE was

\* the position of cell c in raster order (i outer, j inner)
RasterIndex(c) == c[1] * height_cells + c[2]

IsCorner(c) == c[1] \in {0, width_cells - 1} /\ c[2] \in {0, height_cells - 1}
IsInterior(c) == c[1] \notin {0, width_cells - 1} /\ c[2] \notin {0, height_cells - 1}

\* C1: a step of the double-buffered updateAndDrawCells sets every cell to
\* dead if it was alive with a live-neighbor count other than 2 and 3, alive if
\* it was dead with a count of exactly 3, and its previous state otherwise, the
\* count being that of the clamped 3x3 window in the pre-step generation.
C1_StepAppliesRule ==
    lastOp = "step" =>
        \A c \in AllCells :
            cells[c[1]][c[2]] =
                CanonicalNext(prevCells[c[1]][c[2]],
                              LiveNeighborCount(prevCells, c[1], c[2]))

\* a step in which one cell died, one was born and one stayed alive
C1_Witness ==
    /\ lastOp = "step"
    /\ \E c \in AllCells : prevCells[c[1]][c[2]] /\ ~cells[c[1]][c[2]]
    /\ \E c \in AllCells : ~prevCells[c[1]][c[2]] /\ cells[c[1]][c[2]]
    /\ \E c \in AllCells : prevCells[c[1]][c[2]] /\ cells[c[1]][c[2]]

\* C2: in the double-buffered updateAndDrawCells no cell's alive field is
\* written during the scan: while it scans, cells is the pre-step generation and
\* every read returned a pre-step value; the commit starts with every new state
\* computed and overwrites the cells in raster order, ending with cells equal to
\* newStates everywhere.
C2_ScanReadsPreStep ==
    /\ pc = "scan" =>
          /\ cells = prevCells
          /\ \A r \in reads : r[3] /\ r[4] = prevCells[r[1]][r[2]]
    /\ pc = "commit" =>
          /\ DOMAIN newStates = AllCells
          /\ \A c \in AllCells :
                cells[c[1]][c[2]] =
                    IF RasterIndex(c) < RasterIndex(<<loopI, loopJ>>)
                    THEN newStates[c]
                    ELSE prevCells[c[1]][c[2]]
    /\ pc = "return" =>
          /\ DOMAIN newStates = AllCells
          /\ \A c \in AllCells : cells[c[1]][c[2]] = newStates[c]

\* mid-scan, the cell scanned last read a neighbor whose new state had already
\* been computed and differs from its pre-step state
C2_Witness ==
    /\ pc = "scan"
    /\ \E r \in reads :
          /\ <<r[1], r[2]>> \in DOMAIN newStates
          /\ newStates[<<r[1], r[2]>>] # r[4]
          /\ r[4] = prevCells[r[1]][r[2]]

\* the in-place step's count for cell c: the alive cells of its clamped window,
\* c included, cells before c in raster order read as updated, the others as
\* they were before the step
MixedCount(c) ==
    Cardinality({kl \in ClampedWindow(c[1], c[2]) \cup {c} :
                    IF RasterIndex(kl) < RasterIndex(c)
                    THEN cells[kl[1]][kl[2]]
                    ELSE prevCells[kl[1]][kl[2]]})

\* C3: the in-place updateAndDrawCells mutates cells as it scans: the count of
\* a cell reads the already-updated state of the neighbors scanned before it
\* and the pre-step state of the others; on the all-alive 2x2 grid its result
\* differs from the canonical rule applied to the pre-step generation (the
\* double-buffered step's result).
C3_InPlaceReadsUpdated ==
    (variant = "extinction" /\ lastOp = "step") =>
        /\ \A c \in AllCells :
              cells[c[1]][c[2]] = CanonicalNext(prevCells[c[1]][c[2]], MixedCount(c))
        \* a grid on which the results differ: the all-alive 2x2 grid
        /\ (width_cells = 2 /\ height_cells = 2
                /\ \A c \in AllCells : prevCells[c[1]][c[2]]) =>
              /\ \E c \in AllCells :
                    cells[c[1]][c[2]] #
                        CanonicalNext(prevCells[c[1]][c[2]],
                                      LiveNeighborCount(prevCells, c[1], c[2]))
              /\ cells # UpdateAndDrawCells(prevCells).cells

\* an in-place step whose result is neither the double-buffered step's nor the
\* one the same counts would give from the pre-step generation
C3_Witness ==
    /\ variant = "extinction"
    /\ lastOp = "step"
    /\ cells # UpdateAndDrawCells(prevCells).cells
    /\ cells # MutInPlaceSimultaneous(prevCells).cells

\* C4: on a grid of at least 2 x 2 cells, the cells read while counting the
\* neighbors of (i, j) are exactly the clamped window minus (i, j), all inside
\* the grid: 3 for a corner, 8 for an interior cell, 5 for any other, and the
\* count is the number of alive ones among them.
C4_WindowClamped ==
    (scanned # NoCell /\ width_cells >= 2 /\ height_cells >= 2) =>
        LET idx == {<<r[1], r[2]>> : r \in reads}
        IN  /\ idx = ClampedWindow(scanned[1], scanned[2])
            /\ idx \subseteq AllCells
            /\ \A r \in reads : r[3]
            /\ Cardinality(idx) = IF IsCorner(scanned) THEN 3
                                  ELSE IF IsInterior(scanned) THEN 8
                                  ELSE 5
            /\ pc # "idle" =>
                  /\ aliveNeighbors = Cardinality({r \in reads : r[4]})
                  /\ aliveNeighbors <= Cardinality(idx)

\* an interior cell scanned with all 8 neighbors alive
C4_Witness ==
    /\ scanned # NoCell
    /\ IsInterior(scanned)
    /\ aliveNeighbors = 8

\* C5: the double-buffered updateAndDrawCells returns true exactly when no
\* cell's alive state differs between the pre-step generation and the one it
\* commits.
C5_StalledIffUnchanged ==
    (variant = "change" /\ lastOp = "step") =>
        (animationStalled <=> cells = prevCells)

\* a step that changed exactly one cell, not the last one scanned, and
\* returned false
C5_Witness ==
    /\ variant = "change"
    /\ lastOp = "step"
    /\ ~animationStalled
    /\ Cardinality({c \in AllCells : cells[c[1]][c[2]] # prevCells[c[1]][c[2]]}) = 1
    /\ cells[width_cells - 1][height_cells - 1]
          = prevCells[width_cells - 1][height_cells - 1]

\* C6: once animationStalled is true, every handler but reset leaves it true
\* and leaves the grid as it is, and draw does not step.
C6_StalledUntilReset ==
    [][animationStalled =>
          \/ lastOp' = "reset"
          \/ /\ animationStalled'
             /\ cells' = cells
             /\ lastOp' \notin {"step", "throw", "draw"}]_vars

\* a stalled frame rendering a grid with live cells
C6_Witness ==
    /\ animationStalled
    /\ lastOp = "render"
    /\ \E c \in AllCells : cells[c[1]][c[2]]

\* C7: reset leaves animationStalled false, every cell seeded from its draw,
\* and both sliders as they were; the draw that follows a reset steps.
C7_ResetRestarts ==
    [][/\ lastOp' = "reset" =>
             /\ ~animationStalled'
             /\ frameRateSlider' = frameRateSlider
             /\ probabilitySlider' = probabilitySlider
             /\ DOMAIN randomNum' = Cols
             /\ \A c \in AllCells :
                   cells'[c[1]][c[2]] = (randomNum'[c[1]][c[2]] <= probabilitySlider)
       /\ (lastOp = "reset" /\ lastOp' \notin {"reset", "slider"}) =>
             /\ lastOp' = "step"
             /\ prevCells' = cells]_vars

\* a reset done with both sliders moved off their starting values
C7_Witness ==
    /\ lastOp = "reset"
    /\ ~animationStalled
    /\ frameRateSlider = SLIDER_MAX_FRAMERATE
    /\ probabilitySlider = SLIDER_MAX_PERCENTAGE
    /\ \A c \in AllCells : cells[c[1]][c[2]]

\* C8: after reset each cell is alive iff its draw, an integer of 1..100, is
\* <= the seed probability; so probability 0 gives an all-dead grid and
\* probability 100 an all-alive one.
C8_SeedThreshold ==
    lastOp = "reset" =>
        /\ randomNum \in [Cols -> [Rows -> 1 .. 100]]
        /\ \A c \in AllCells :
              cells[c[1]][c[2]] <=> randomNum[c[1]][c[2]] <= probabilitySlider
        /\ probabilitySlider = 0 => \A c \in AllCells : ~cells[c[1]][c[2]]
        /\ probabilitySlider = 100 => \A c \in AllCells : cells[c[1]][c[2]]

\* a reset at probability 100 with a draw of 100
C8_Witness ==
    /\ lastOp = "reset"
    /\ probabilitySlider = 100
    /\ \E c \in AllCells : randomNum[c[1]][c[2]] = 100
    /\ \A c \in AllCells : cells[c[1]][c[2]]

\* C9: the grid always holds exactly one cell for every (col, row) of
\* [0, width_cells) x [0, height_cells), each with a boolean alive field, and
\* the dimensions never change.
GridWellFormed ==
    /\ DOMAIN cells = Cols
    /\ \A i \in Cols : DOMAIN cells[i] = Rows
    /\ \A c \in AllCells : cells[c[1]][c[2]] \in BOOLEAN

C9_GridShape ==
    /\ []GridWellFormed
    /\ [][width_cells' = width_cells /\ height_cells' = height_cells]_vars

\* a grid with live and dead cells after a step that changed it
C9_Witness ==
    /\ lastOp = "step"
    /\ cells # prevCells
    /\ \E c \in AllCells : cells[c[1]][c[2]]
    /\ \E c \in AllCells : ~cells[c[1]][c[2]]

\* C10: on a 1x1 grid whose cell is alive, a step completes with zero neighbors
\* counted and leaves the cell dead.
C10_OneByOneDies ==
    (/\ width_cells = 1
     /\ height_cells = 1
     /\ lastOp \in {"step", "throw"}
     /\ prevCells[0][0]) =>
        /\ lastOp = "step"
        /\ 0 = IF variant = "change"
               THEN AliveNeighbors(prevCells, 0, 0)
               ELSE InPlaceAliveNeighbors(prevCells, 0, 0)
        /\ ~cells[0][0]

\* a width_cells x height_cells grid whose alive cells are exactly those of live
GridOf(live) == [i \in Cols |-> [j \in Rows |-> <<i, j>> \in live]]

AllDead(g) == \A c \in AllCells : ~g[c[1]][c[2]]

VerticalBlinker == {<<1, 0>>, <<1, 1>>, <<1, 2>>}
HorizontalBlinker == {<<0, 1>>, <<1, 1>>, <<2, 1>>}

\* C11: on a 3x3 grid whose alive cells are exactly (1,0), (1,1), (1,2), a step
\* leaves exactly (0,1), (1,1), (2,1) alive.
C11_BlinkerStep ==
    (/\ lastOp = "step"
     /\ width_cells = 3
     /\ height_cells = 3
     /\ prevCells = GridOf(VerticalBlinker)) =>
        cells = GridOf(HorizontalBlinker)

\* the step from the vertical blinker has run
C11_Witness ==
    /\ lastOp = "step"
    /\ width_cells = 3
    /\ height_cells = 3
    /\ prevCells = GridOf(VerticalBlinker)
    /\ cells = GridOf(HorizontalBlinker)

\* C12: a step of a grid with no live cells returns stalled and leaves the grid
\* all dead, and an all-dead grid stays all dead under every handler but reset.
C12_AllDeadAbsorbing ==
    [][(AllDead(cells) /\ lastOp' # "reset") =>
          /\ AllDead(cells')
          /\ lastOp' # "throw"
          /\ lastOp' = "step" => animationStalled']_vars

\* the first step of an all-dead grid has reported stalled
C12_Witness ==
    /\ lastOp = "step"
    /\ AllDead(prevCells)
    /\ AllDead(cells)
    /\ animationStalled

\* a 2x2 all-alive block off the border of an otherwise dead grid
IsInteriorBlock(g) ==
    \E a \in 1 .. (width_cells - 3), b \in 1 .. (height_cells - 3) :
        g = GridOf({<<a, b>>, <<a + 1, b>>, <<a, b + 1>>, <<a + 1, b + 1>>})

\* every cell of g keeps its state under the canonical rule
IsFixedPoint(g) ==
    \A c \in AllCells :
        CanonicalNext(g[c[1]][c[2]], LiveNeighborCount(g, c[1], c[2])) = g[c[1]][c[2]]

\* C13: a grid that a step left identical to its input is a fixed point of the
\* rule and no later frame changes it; in particular a step leaves a 2x2 block
\* in the interior of an otherwise dead grid of at least 4x4 cells unchanged
\* and returns stalled, and the block stays under every later frame.
C13_FixedPointsStay ==
    /\ []((lastOp = "step" /\ cells = prevCells) => IsFixedPoint(cells))
    /\ []((lastOp = "step" /\ IsInteriorBlock(prevCells)) =>
             (cells = prevCells /\ animationStalled))
    /\ [][(/\ \/ lastOp = "step" /\ cells = prevCells
              \/ IsInteriorBlock(cells)
           /\ lastOp' # "reset") =>
              /\ cells' = cells
              /\ lastOp' # "throw"]_vars

\* the step of an interior block has left it unchanged and reported stalled
C13_Witness ==
    /\ lastOp = "step"
    /\ width_cells >= 4
    /\ height_cells >= 4
    /\ IsInteriorBlock(prevCells)
    /\ cells = prevCells
    /\ animationStalled

\* the canonical next generation of g
NextGeneration(g) ==
    [i \in Cols |-> [j \in Rows |->
        CanonicalNext(g[i][j], LiveNeighborCount(g, i, j))]]

\* C14: the step is deterministic: the grid and the stalled result it leaves
\* are one function of the grid it started from, whatever the sliders' values
\* and whatever ran before (two steps from identical grids therefore agree).
C14_StepDeterministic ==
    (variant = "change" /\ lastOp = "step") =>
        <<cells, animationStalled>> =
            <<NextGeneration(prevCells), NextGeneration(prevCells) = prevCells>>

\* a step that changed the grid, taken after an earlier step and with both
\* sliders moved off the values the grid was seeded under
C14_Witness ==
    /\ variant = "change"
    /\ lastOp = "step"
    /\ frameRateSlider = SLIDER_MAX_FRAMERATE
    /\ probabilitySlider = SLIDER_MIN_PERCENTAGE
    /\ cells # prevCells
    /\ \E c \in AllCells : cells[c[1]][c[2]]

\* C15: in the extinction variant, the step returns true exactly when every
\* cell is dead after the update, and draw stops the loop on that frame: after
\* a step cellsAreAllDead says whether the grid is all dead, and an all-dead
\* grid is no longer being stepped.
C15_ExtinctionDetected ==
    (variant = "extinction" /\ lastOp = "step") =>
        /\ cellsAreAllDead <=> AllDead(cells)
        /\ AllDead(cells) => ~looping

MixedCountExcludingSelf(c) ==
    Cardinality({kl \in ClampedWindow(c[1], c[2]) :
                    IF RasterIndex(kl) < RasterIndex(c)
                    THEN cells[kl[1]][kl[2]]
                    ELSE prevCells[kl[1]][kl[2]]})

\* C17: in the extinction variant's step, the count used for cell (i, j) is the
\* number of alive cells of its window other than (i, j): the cell's own state
\* adds nothing to it, so the cell's new state is the rule applied to the count
\* over the other cells, and the count equals that number.
C17_CountExcludesSelf ==
    (variant = "extinction" /\ lastOp = "step") =>
        \A c \in AllCells :
            /\ cells[c[1]][c[2]] =
                  CanonicalNext(prevCells[c[1]][c[2]], MixedCountExcludingSelf(c))
            /\ (RasterIndex(c) = 0) =>
                  InPlaceAliveNeighbors(prevCells, c[1], c[2]) =
                      LiveNeighborCount(prevCells, c[1], c[2])

\* C18: in the change variant, whenever animationStalled is true the grid is a
\* fixed point of the step: stepping it would return the same grid.
C18_StalledIsFixedPoint ==
    (variant = "change" /\ animationStalled) =>
        /\ IsFixedPoint(cells)
        /\ UpdateAndDrawCells(cells).cells = cells

\* a stalled grid with live cells, a slider having been moved since it stalled
C18_Witness ==
    /\ variant = "change"
    /\ animationStalled
    /\ lastOp = "slider"
    /\ \E c \in AllCells : cells[c[1]][c[2]]

\* the two phases of the blinker on the 3x3 grid
IsBlinker(g) ==
    /\ width_cells = 3
    /\ height_cells = 3
    /\ g \in {GridOf(VerticalBlinker), GridOf(HorizontalBlinker)}

\* C19: stalling is not guaranteed: while the grid is a blinker in an otherwise
\* dead 3x3 grid animationStalled is false, and every frame without a reset is
\* a step that changes the grid into the blinker's other phase and leaves
\* animationStalled false, so the simulation never leaves RUNNING.
C19_BlinkerNeverStalls ==
    /\ [](IsBlinker(cells) => ~animationStalled)
    /\ [][(IsBlinker(cells) /\ lastOp' # "reset") =>
            /\ IsBlinker(cells')
            /\ ~animationStalled'
            /\ lastOp' \in {"step", "slider"}
            /\ lastOp' = "step" => (cells' # cells /\ cells' = NextGeneration(cells))
            /\ lastOp' = "slider" => cells' = cells]_vars

\* the blinker back in its vertical phase after a step from the horizontal one
C19_Witness ==
    /\ lastOp = "step"
    /\ IsBlinker(cells)
    /\ cells = GridOf(VerticalBlinker)
    /\ prevCells = GridOf(HorizontalBlinker)
    /\ ~animationStalled

====
